---- MODULE Spec2Model ----
(***************************************************************************)
(* State-machine model of scilpy/direction/peaks.py: the ODF peak          *)
(* extraction pipeline (peak_directions_asym, local_maxima,                *)
(* _compare_neighbors, _cosort, search_descending and                      *)
(* remove_similar_vertices).                                               *)
(*                                                                         *)
(* Arrays are functions on 0..n-1, as in the source.  Sample values are    *)
(* small integers plus one NaN token; IEEE comparisons with NaN are false. *)
(* Unit vectors are integer triples of norm 5 (dot products are in units  *)
(* of 1/25); relative thresholds are exact fractions                      *)
(* <<num, den>>; angles are degrees, looked up in a cosine table.          *)
(***************************************************************************)
EXTENDS Integers, Sequences, FiniteSets, TLC

VARIABLES
    call,                    \* the public function under call
    pc,                      \* position in the code
    outcome,                 \* "running", "return", or the exception raised
    odf,                     \* peak_directions_asym / local_maxima: odf
    sphere_vertices,         \* sphere.vertices
    edges,                   \* sphere.edges
    relative_peak_threshold, \* peak_directions_asym argument
    min_separation_angle,    \* peak_directions_asym argument
    wpeak, count, ei, ci,    \* _compare_neighbors locals (ei, ci: loop i)
    cn_ret,                  \* shape of what _compare_neighbors returned
    values, indices,         \* local_maxima result / pipeline values, indices
    directions,              \* pipeline directions / dedup result verts
    a, relative_threshold,   \* search_descending arguments
    n,                       \* peak_directions_asym n / search result
    vertices, theta, asym,   \* remove_similar_vertices arguments
    unique_vertices, index,  \* remove_similar_vertices buffers
    n_unique, di, broke,     \* remove_similar_vertices loop state
    uniq                     \* index array returned by remove_similar_vertices

vars == <<call, pc, outcome, odf, sphere_vertices, edges,
          relative_peak_threshold, min_separation_angle,
          wpeak, count, ei, ci, cn_ret, values, indices, directions,
          a, relative_threshold, n, vertices, theta, asym,
          unique_vertices, index, n_unique, di, broke, uniq>>

----------------------------------------------------------------------------
(* Bounds of the model. *)

NumVerts == 3      \* vertices of the generic mesh
MaxEdges == 2      \* edges in a generic edge list
MaxVecs == 3       \* input vectors of a direct remove_similar_vertices call
MaxLen == 3        \* length of a direct search_descending input
MaxA == 2          \* largest value in a direct search_descending input

----------------------------------------------------------------------------
(* Numbers. *)

NaN == -99

IsNaN(x) == x = NaN

\* comparisons that let equal values through
FLtOrEqual(x, y) == ~IsNaN(x) /\ ~IsNaN(y) /\ x <= y

FGtOrEqual(x, y) == ~IsNaN(x) /\ ~IsNaN(y) /\ x >= y

\* IEEE-754 ordered comparisons: false as soon as one side is NaN.
FLt(x, y) == ~IsNaN(x) /\ ~IsNaN(y) /\ x < y

FGt(x, y) == ~IsNaN(x) /\ ~IsNaN(y) /\ x > y

FGe(x, y) == ~IsNaN(x) /\ ~IsNaN(y) /\ x >= y

\* x != y in IEEE-754: true when either side is NaN.
FNe(x, y) == IsNaN(x) \/ IsNaN(y) \/ x # y

FSub(x, y) == IF IsNaN(x) \/ IsNaN(y) THEN NaN ELSE x - y

Len0(f) == Cardinality(DOMAIN f)

Arrays(S, maxlen) == UNION {[0..(k - 1) -> S] : k \in 0..maxlen}

SetMax(S) == CHOOSE x \in S : \A y \in S : y <= x

SetMin(S) == CHOOSE x \in S : \A y \in S : x <= y

\* np.min: NaN propagates.
NpMin(f) ==
    IF \E i \in DOMAIN f : IsNaN(f[i]) THEN NaN
    ELSE SetMin({f[i] : i \in DOMAIN f})

----------------------------------------------------------------------------
(* Vectors and angles. *)

Dot(u, v) == u[1] * v[1] + u[2] * v[2] + u[3] * v[3]

Abs(x) == IF x < 0 THEN -x ELSE x

\* np.cos(np.pi/180 * theta) in units of 1/50, rounded down.  Every dot
\* product of the model is a whole number d of 1/25, so d/25 > cos(theta)
\* exactly when 2*d > CosTable(theta).
CosTable(t) ==
    CASE t = 0 -> 50
      [] t = 25 -> 45
      [] t = 45 -> 35
      [] t = 60 -> 25
      [] t = 90 -> 0

\* sim > cos_similarity for one entry of sim.
TooSimilar(v, u, t, asy) ==
    LET d == Dot(v, u)
        s == IF asy THEN d ELSE Abs(d)
    IN 2 * s > CosTable(t)

----------------------------------------------------------------------------
(* search_descending *)

IndexError == -1   \* what SearchDescending yields when [0][-1] has no element

\* a[i] > relative_threshold * a[0], with relative_threshold = rt[1]/rt[2].
AboveThreshold(x, rt, a0) == x * rt[2] > rt[1] * a0

SearchDescending(arr, rt) ==
    IF Len0(arr) = 0 THEN 0
    ELSE LET above == {i \in DOMAIN arr : AboveThreshold(arr[i], rt, arr[0])}
         IN IF above = {} THEN IndexError ELSE SetMax(above) + 1

----------------------------------------------------------------------------
(* _cosort: insertion sort of A, descending, B reordered alongside. *)

RECURSIVE CosortShiftTies(_, _, _, _)
\* an insertion that also moves the entry past equal values
CosortShiftTies(AB, hole, insert_A, insert_B) ==
    IF hole > 0 /\ FGe(insert_A, AB[1][hole - 1])
    THEN CosortShiftTies(<<[AB[1] EXCEPT ![hole] = AB[1][hole - 1]],
                           [AB[2] EXCEPT ![hole] = AB[2][hole - 1]]>>,
                         hole - 1, insert_A, insert_B)
    ELSE <<[AB[1] EXCEPT ![hole] = insert_A],
           [AB[2] EXCEPT ![hole] = insert_B]>>

RECURSIVE CosortShift(_, _, _, _)
\* the while loop of one insertion; AB = <<A, B>>
CosortShift(AB, hole, insert_A, insert_B) ==
    IF hole > 0 /\ FGt(insert_A, AB[1][hole - 1])
    THEN CosortShift(<<[AB[1] EXCEPT ![hole] = AB[1][hole - 1]],
                       [AB[2] EXCEPT ![hole] = AB[2][hole - 1]]>>,
                     hole - 1, insert_A, insert_B)
    ELSE <<[AB[1] EXCEPT ![hole] = insert_A],
           [AB[2] EXCEPT ![hole] = insert_B]>>

RECURSIVE CosortFrom(_, _)
\* the for loop, from iteration i on
CosortFrom(AB, i) ==
    IF i >= Len0(AB[1]) THEN AB
    ELSE CosortFrom(CosortShift(AB, i, AB[1][i], AB[2][i]), i + 1)

\* a co-sort that forgets to reorder B
\* the arrays left as they were passed
CosortNoSort(A, B) == <<A, B>>

CosortKeepB(A, B) == <<CosortFrom(<<A, B>>, 1)[1], B>>

Cosort(A, B) == CosortFrom(<<A, B>>, 1)

\* np.take(odf, indices) and fancy indexing x[idx]
Take(x, idx) == [k \in DOMAIN idx |-> x[idx[k]]]

\* x[:m]
Prefix(x, m) == [k \in 0..(m - 1) |-> x[k]]

----------------------------------------------------------------------------
(* Inputs. *)

\* Directions of norm 5 used as mesh vertices and as dedup inputs.
Dirs == <<<<5, 0, 0>>, <<4, 3, 0>>, <<-5, 0, 0>>, <<0, 0, 5>>, <<0, 5, 0>>>>

SphereVertices(nv) == [k \in 0..(nv - 1) |-> Dirs[k + 1]]

SampleVals == {NaN, -1, 0, 1, 2}
StarVals == {-2, -1, 0, 1, 2}

\* Edges of the generic mesh: every in-range pair (written smaller index
\* first), and an index = len(odf) in either column.
EdgePairs ==
    {e \in (0..(NumVerts - 1)) \X (0..(NumVerts - 1)) : e[1] < e[2]}
        \cup {<<0, NumVerts>>, <<NumVerts, 0>>}

DefaultThreshold == <<1, 2>>      \* relative_peak_threshold=.5
DefaultAngle == 25                \* min_separation_angle=25

Thresholds == {<<0, 1>>, <<1, 2>>, <<1, 1>>}
Angles == {0, 45, 90}

\* The 4-cycle mesh, and the star whose centre is vertex 3.
CycleEdges == 0 :> <<0, 1>> @@ 1 :> <<1, 2>> @@ 2 :> <<2, 3>> @@ 3 :> <<3, 0>>
StarEdges == 0 :> <<0, 3>> @@ 1 :> <<1, 3>> @@ 2 :> <<2, 3>>
CycleSample == 0 :> 1 @@ 1 :> 3 @@ 2 :> 2 @@ 3 :> 3

\* What np.empty may hold in a row of unique_vertices: anything.  Two
\* representatives: a row that is similar to nothing, and a row with a large
\* dot product with some directions.
Garbage == {<<0, 0, 0>>, <<50, 0, 0>>}

DedupDirs == {Dirs[k] : k \in 1..4}

Descending(arr) == \A i \in DOMAIN arr : (i + 1) \in DOMAIN arr => arr[i] >= arr[i + 1]

Ten == [i \in 0..9 |-> 10 - i]

SearchInputs == {arr \in Arrays(-1..MaxA, MaxLen) : Descending(arr)} \cup {Ten}
SearchThresholds == Thresholds \cup {<<2, 1>>}

Idle ==
    /\ pc = "call" /\ outcome = "running"
    /\ wpeak = <<>> /\ count = 0 /\ ei = 0 /\ ci = 0 /\ cn_ret = "none"
    /\ values = <<>> /\ indices = <<>> /\ directions = <<>>
    /\ n = 0 /\ unique_vertices = <<>> /\ index = <<>>
    /\ n_unique = 0 /\ di = 0 /\ broke = FALSE /\ uniq = <<>>

NoSearchArgs == a = <<>> /\ relative_threshold = <<0, 1>>
NoDedupArgs == vertices = <<>> /\ theta = 0 /\ asym = FALSE
NoPeakArgs ==
    /\ odf = <<>> /\ sphere_vertices = <<>> /\ edges = <<>>
    /\ relative_peak_threshold = <<0, 1>> /\ min_separation_angle = 0

\* peak_directions_asym(odf, sphere) on every small mesh
InitPeaksGeneric ==
    /\ call = "peak_directions_asym"
    /\ odf \in [0..(NumVerts - 1) -> SampleVals]
    /\ edges \in Arrays(EdgePairs, MaxEdges)
    /\ sphere_vertices = SphereVertices(NumVerts)
    /\ relative_peak_threshold = DefaultThreshold
    /\ min_separation_angle = DefaultAngle
    /\ NoSearchArgs /\ NoDedupArgs /\ Idle

\* peak_directions_asym on the 4-cycle with sample [1,3,2,3]
InitPeaksCycle ==
    /\ call = "peak_directions_asym"
    /\ odf = CycleSample
    /\ edges = CycleEdges
    /\ sphere_vertices = SphereVertices(4)
    /\ relative_peak_threshold = DefaultThreshold
    /\ min_separation_angle = DefaultAngle
    /\ NoSearchArgs /\ NoDedupArgs /\ Idle

\* peak_directions_asym(odf, sphere, relative_peak_threshold,
\* min_separation_angle) on the star mesh
InitPeaksStar ==
    /\ call = "peak_directions_asym"
    /\ odf \in [0..3 -> StarVals]
    /\ edges = StarEdges
    /\ sphere_vertices = SphereVertices(4)
    /\ relative_peak_threshold \in Thresholds
    /\ min_separation_angle \in Angles
    /\ NoSearchArgs /\ NoDedupArgs /\ Idle

\* remove_similar_vertices(vertices, theta, return_index=True, asym)
InitRemoveSimilar ==
    /\ call = "remove_similar_vertices"
    /\ vertices \in Arrays(DedupDirs, MaxVecs)
    /\ theta \in Angles
    /\ asym \in BOOLEAN
    /\ NoSearchArgs /\ NoPeakArgs /\ Idle

\* search_descending(a, relative_threshold)
InitSearch ==
    /\ call = "search_descending"
    /\ a \in SearchInputs
    /\ relative_threshold \in SearchThresholds
    /\ NoDedupArgs /\ NoPeakArgs /\ Idle

\* _cosort(A, B) with A a copy of odf and B = arange(len(odf))
InitCosort ==
    /\ call = "_cosort"
    /\ odf \in Arrays(-1..MaxA, MaxLen)
    /\ sphere_vertices = <<>> /\ edges = <<>>
    /\ relative_peak_threshold = <<0, 1>> /\ min_separation_angle = 0
    /\ pc = "call" /\ outcome = "running"
    /\ wpeak = <<>> /\ count = 0 /\ ei = 0 /\ ci = 0 /\ cn_ret = "none"
    /\ values = odf /\ indices = [k \in DOMAIN odf |-> k] /\ directions = <<>>
    /\ n = 0 /\ unique_vertices = <<>> /\ index = <<>>
    /\ n_unique = 0 /\ di = 0 /\ broke = FALSE /\ uniq = <<>>
    /\ NoSearchArgs /\ NoDedupArgs

Init ==
    \/ InitCosort
    \/ InitPeaksGeneric
    \/ InitPeaksCycle
    \/ InitPeaksStar
    \/ InitRemoveSimilar
    \/ InitSearch

----------------------------------------------------------------------------
(* _compare_neighbors *)

\* x | 1 on a two's-complement integer
\* a win that overwrites the marker instead of or-ing bit 0 into it
Or1Set(x) == 1

Or1(x) == IF x % 2 = 0 THEN x + 1 ELSE x

\* a marker update that overwrites a "dominated" mark of the larger point
MarkEdgeOverwrite(w, smaller, larger) ==
    [[w EXCEPT ![smaller] = -1] EXCEPT ![larger] = 1]

\* the marker update of one edge whose endpoints compare smaller < larger
MarkEdge(w, smaller, larger) ==
    [[w EXCEPT ![smaller] = -1] EXCEPT ![larger] = Or1(@)]

\* the marker update when odf0 > odf1: wpeak[find0] |= 1; wpeak[find1] = -1
MarkEdgeRev(w, larger, smaller) ==
    [[w EXCEPT ![larger] = Or1(@)] EXCEPT ![smaller] = -1]

CompareNeighborsEnter ==
    /\ pc = "call" /\ call = "peak_directions_asym"
    /\ wpeak' = [k \in DOMAIN odf |-> 0]
    /\ count' = 0
    /\ ei' = 0
    /\ pc' = "cn_scan"
    /\ UNCHANGED <<call, outcome, odf, sphere_vertices, edges,
                   relative_peak_threshold, min_separation_angle, ci, cn_ret,
                   values, indices, directions, a, relative_threshold, n,
                   vertices, theta, asym, unique_vertices, index, n_unique,
                   di, broke, uniq>>

\* one iteration of the loop over edges
CompareEdge ==
    /\ pc = "cn_scan" /\ ei < Len0(edges)
    /\ LET find0 == edges[ei][1]
           find1 == edges[ei][2]
           lenodf == Len0(odf)
       IN IF find0 >= lenodf \/ find1 >= lenodf
          THEN /\ count' = -1
               /\ pc' = "cn_break"
               /\ UNCHANGED <<wpeak, ei>>
          ELSE LET odf0 == odf[find0]
                   odf1 == odf[find1]
               IN IF FLt(odf0, odf1)
                  THEN /\ wpeak' = MarkEdge(wpeak, find0, find1)
                       /\ ei' = ei + 1
                       /\ UNCHANGED <<count, pc>>
                  ELSE IF FGt(odf0, odf1)
                  THEN /\ wpeak' = MarkEdgeRev(wpeak, find0, find1)
                       /\ ei' = ei + 1
                       /\ UNCHANGED <<count, pc>>
                  ELSE IF FNe(odf0, odf0) \/ FNe(odf1, odf1)
                  THEN /\ count' = -2
                       /\ pc' = "cn_break"
                       /\ UNCHANGED <<wpeak, ei>>
                  ELSE /\ ei' = ei + 1
                       /\ UNCHANGED <<wpeak, count, pc>>
    /\ UNCHANGED <<call, outcome, odf, sphere_vertices, edges,
                   relative_peak_threshold, min_separation_angle, ci, cn_ret,
                   values, indices, directions, a, relative_threshold, n,
                   vertices, theta, asym, unique_vertices, index, n_unique,
                   di, broke, uniq>>

\* after the loop: "if count < 0: return count", else go on to the compaction
ScanEnd ==
    /\ \/ pc = "cn_scan" /\ ei = Len0(edges)
       \/ pc = "cn_break"
    /\ IF count < 0
       THEN /\ cn_ret' = "int"
            /\ pc' = "lm_unpack"
            /\ UNCHANGED ci
       ELSE /\ ci' = 0
            /\ pc' = "cn_compact"
            /\ UNCHANGED cn_ret
    /\ UNCHANGED <<call, outcome, odf, sphere_vertices, edges,
                   relative_peak_threshold, min_separation_angle, wpeak,
                   count, ei, values, indices, directions, a,
                   relative_threshold, n, vertices, theta, asym,
                   unique_vertices, index, n_unique, di, broke, uniq>>

\* one iteration of the loop that moves the peak indices to the front of wpeak
\* a compaction that keeps every marker that is not negative
CompactStepNonNegative ==
    /\ pc = "cn_compact" /\ ci < Len0(odf)
    /\ IF wpeak[ci] >= 0
       THEN /\ wpeak' = [wpeak EXCEPT ![count] = ci]
            /\ count' = count + 1
       ELSE UNCHANGED <<wpeak, count>>
    /\ ci' = ci + 1
    /\ UNCHANGED <<call, pc, outcome, odf, sphere_vertices, edges,
                   relative_peak_threshold, min_separation_angle, ei, cn_ret,
                   values, indices, directions, a, relative_threshold, n,
                   vertices, theta, asym, unique_vertices, index, n_unique,
                   di, broke, uniq>>

CompactStep ==
    /\ pc = "cn_compact" /\ ci < Len0(odf)
    /\ IF wpeak[ci] > 0
       THEN /\ wpeak' = [wpeak EXCEPT ![count] = ci]
            /\ count' = count + 1
       ELSE UNCHANGED <<wpeak, count>>
    /\ ci' = ci + 1
    /\ UNCHANGED <<call, pc, outcome, odf, sphere_vertices, edges,
                   relative_peak_threshold, min_separation_angle, ei, cn_ret,
                   values, indices, directions, a, relative_threshold, n,
                   vertices, theta, asym, unique_vertices, index, n_unique,
                   di, broke, uniq>>

\* "return wpeak, count"
CompactEnd ==
    /\ pc = "cn_compact" /\ ci = Len0(odf)
    /\ cn_ret' = "tuple"
    /\ pc' = "lm_unpack"
    /\ UNCHANGED <<call, outcome, odf, sphere_vertices, edges,
                   relative_peak_threshold, min_separation_angle, wpeak,
                   count, ei, ci, values, indices, directions, a,
                   relative_threshold, n, vertices, theta, asym,
                   unique_vertices, index, n_unique, di, broke, uniq>>

----------------------------------------------------------------------------
(* local_maxima, from the return of _compare_neighbors on *)

\* What "wpeak, count = _compare_neighbors(odf, edges)" and the two checks
\* that follow it raise, or "none".
LocalMaximaError(ret, cnt) ==
    IF ret = "int" THEN "TypeError"        \* an int cannot be unpacked
    ELSE IF cnt = -1 THEN "IndexError"
    ELSE IF cnt = -2 THEN "ValueError"
    ELSE "none"

\* local_maxima sorting the caller's array instead of a copy
LocalMaximaInPlace ==
    /\ pc = "lm_unpack"
    /\ LET err == LocalMaximaError(cn_ret, count)
       IN IF err # "none"
          THEN /\ outcome' = err
               /\ pc' = "done"
               /\ UNCHANGED <<values, indices, odf>>
          ELSE LET idx == Prefix(wpeak, count)
                   sorted == Cosort(Take(odf, idx), idx)
               IN /\ values' = sorted[1]
                  /\ indices' = sorted[2]
                  /\ odf' = Cosort(odf, [k \in DOMAIN odf |-> k])[1]
                  /\ pc' = "pd_branch"
                  /\ UNCHANGED outcome
    /\ UNCHANGED <<call, sphere_vertices, edges,
                   relative_peak_threshold, min_separation_angle, wpeak,
                   count, ei, ci, cn_ret, directions, a, relative_threshold,
                   n, vertices, theta, asym, unique_vertices, index,
                   n_unique, di, broke, uniq>>

LocalMaxima ==
    /\ pc = "lm_unpack"
    /\ LET err == LocalMaximaError(cn_ret, count)
       IN IF err # "none"
          THEN /\ outcome' = err
               /\ pc' = "done"
               /\ UNCHANGED <<values, indices>>
          ELSE LET idx == Prefix(wpeak, count)
                   sorted == Cosort(Take(odf, idx), idx)
               IN /\ values' = sorted[1]
                  /\ indices' = sorted[2]
                  /\ pc' = "pd_branch"
                  /\ UNCHANGED outcome
    /\ UNCHANGED <<call, odf, sphere_vertices, edges,
                   relative_peak_threshold, min_separation_angle, wpeak,
                   count, ei, ci, cn_ret, directions, a, relative_threshold,
                   n, vertices, theta, asym, unique_vertices, index,
                   n_unique, di, broke, uniq>>

----------------------------------------------------------------------------
(* peak_directions_asym *)

\* odf_min = np.min(odf); odf_min = odf_min if (odf_min >= 0.) else 0.
OdfMin(f) == LET m == NpMin(f) IN IF FGe(m, 0) THEN m ELSE 0

\* values - odf_min
ValuesNorm(vals, f) == [k \in DOMAIN vals |-> FSub(vals[k], OdfMin(f))]

\* the early exits, or the call of search_descending(values_norm, ...)
PeakBranch ==
    /\ pc = "pd_branch"
    /\ n' = Len0(values)
    /\ IF n' = 0 \/ FLt(values[0], 0)
       THEN /\ directions' = <<>>
            /\ values' = <<>>
            /\ indices' = <<>>
            /\ outcome' = "return"
            /\ pc' = "done"
            /\ UNCHANGED <<a, relative_threshold>>
       ELSE IF n' = 1
       THEN /\ directions' = Take(sphere_vertices, indices)
            /\ outcome' = "return"
            /\ pc' = "done"
            /\ UNCHANGED <<values, indices, a, relative_threshold>>
       ELSE /\ a' = ValuesNorm(values, odf)
            /\ relative_threshold' = relative_peak_threshold
            /\ pc' = "pd_search"
            /\ UNCHANGED <<values, indices, directions, outcome>>
    /\ UNCHANGED <<call, odf, sphere_vertices, edges,
                   relative_peak_threshold, min_separation_angle, wpeak,
                   count, ei, ci, cn_ret, vertices, theta, asym,
                   unique_vertices, index, n_unique, di, broke, uniq>>

\* search_descending(a, relative_threshold), called directly or by
\* peak_directions_asym
SearchDescendingCall ==
    /\ \/ pc = "call" /\ call = "search_descending"
       \/ pc = "pd_search"
    /\ LET indice == SearchDescending(a, relative_threshold)
       IN IF indice = IndexError
          THEN /\ outcome' = "IndexError"
               /\ pc' = "done"
               /\ UNCHANGED n
          ELSE /\ n' = indice
               /\ IF call = "search_descending"
                  THEN outcome' = "return" /\ pc' = "done"
                  ELSE outcome' = outcome /\ pc' = "pd_cut"
    /\ UNCHANGED <<call, odf, sphere_vertices, edges,
                   relative_peak_threshold, min_separation_angle, wpeak,
                   count, ei, ci, cn_ret, values, indices, directions, a,
                   relative_threshold, vertices, theta, asym,
                   unique_vertices, index, n_unique, di, broke, uniq>>

\* indices = indices[:n]; directions = sphere.vertices[indices]; and the
\* call remove_similar_vertices(directions, min_separation_angle,
\* return_index=True, asym=True)
PeakCut ==
    /\ pc = "pd_cut"
    /\ indices' = Prefix(indices, n)
    /\ directions' = Take(sphere_vertices, indices')
    /\ vertices' = directions'
    /\ theta' = min_separation_angle
    /\ asym' = TRUE
    /\ pc' = "rs_enter"
    /\ UNCHANGED <<call, outcome, odf, sphere_vertices, edges,
                   relative_peak_threshold, min_separation_angle, wpeak,
                   count, ei, ci, cn_ret, values, a, relative_threshold, n,
                   unique_vertices, index, n_unique, di, broke, uniq>>

\* values = values[uniq]; indices = indices[uniq]; return
PeakReturn ==
    /\ pc = "pd_select"
    /\ values' = Take(values, uniq)
    /\ indices' = Take(indices, uniq)
    /\ outcome' = "return"
    /\ pc' = "done"
    /\ UNCHANGED <<call, odf, sphere_vertices, edges,
                   relative_peak_threshold, min_separation_angle, wpeak,
                   count, ei, ci, cn_ret, directions, a, relative_threshold,
                   n, vertices, theta, asym, unique_vertices, index,
                   n_unique, di, broke, uniq>>

----------------------------------------------------------------------------
(* remove_similar_vertices *)

\* a similarity test against the first row of the buffer only
AnySimilarFirstRow(v, buffer, t, asy) ==
    0 \in DOMAIN buffer /\ TooSimilar(v, buffer[0], t, asy)

\* (sim > cos_similarity).any(), sim being the products of v with every row
\* of the buffer, filled or not
AnySimilar(v, buffer, t, asy) ==
    \E j \in DOMAIN buffer : TooSimilar(v, buffer[j], t, asy)

\* the shape check, then the buffers: np.empty leaves their contents open
RemoveSimilarEnter ==
    /\ \/ pc = "call" /\ call = "remove_similar_vertices"
       \/ pc = "rs_enter"
    /\ IF \E k \in DOMAIN vertices : Len(vertices[k]) # 3
       THEN /\ outcome' = "ValueError"
            /\ pc' = "done"
            /\ UNCHANGED <<unique_vertices, index, n_unique, di, broke>>
       ELSE /\ unique_vertices' \in [DOMAIN vertices -> Garbage]
            /\ index' = [k \in DOMAIN vertices |-> 0]
            /\ n_unique' = 0
            /\ di' = 0
            /\ broke' = FALSE
            /\ pc' = "rs_loop"
            /\ UNCHANGED outcome
    /\ UNCHANGED <<call, odf, sphere_vertices, edges,
                   relative_peak_threshold, min_separation_angle, wpeak,
                   count, ei, ci, cn_ret, values, indices, directions, a,
                   relative_threshold, n, vertices, theta, asym, uniq>>

\* one iteration of "for i in range(n)"
RemoveSimilarStep ==
    /\ pc = "rs_loop" /\ di < Len0(vertices) /\ ~broke
    /\ IF AnySimilar(vertices[di], unique_vertices, theta, asym)
       THEN /\ broke' = TRUE       \* pass_all = False; break
            /\ UNCHANGED <<unique_vertices, index, n_unique, di>>
       ELSE /\ unique_vertices' = [unique_vertices EXCEPT ![n_unique] = vertices[di]]
            /\ index' = [index EXCEPT ![n_unique] = di]
            /\ n_unique' = n_unique + 1
            /\ di' = di + 1
            /\ UNCHANGED broke
    /\ UNCHANGED <<call, pc, outcome, odf, sphere_vertices, edges,
                   relative_peak_threshold, min_separation_angle, wpeak,
                   count, ei, ci, cn_ret, values, indices, directions, a,
                   relative_threshold, n, vertices, theta, asym, uniq>>

\* verts = unique_vertices[:n_unique].copy(); index[:n_unique].copy()
RemoveSimilarReturn ==
    /\ pc = "rs_loop" /\ (di = Len0(vertices) \/ broke)
    /\ directions' = Prefix(unique_vertices, n_unique)
    /\ uniq' = Prefix(index, n_unique)
    /\ IF call = "remove_similar_vertices"
       THEN outcome' = "return" /\ pc' = "done"
       ELSE outcome' = outcome /\ pc' = "pd_select"
    /\ UNCHANGED <<call, odf, sphere_vertices, edges,
                   relative_peak_threshold, min_separation_angle, wpeak,
                   count, ei, ci, cn_ret, values, indices, a,
                   relative_threshold, n, vertices, theta, asym,
                   unique_vertices, index, n_unique, di, broke>>

----------------------------------------------------------------------------
(* _cosort called directly: A and B are sorted in place *)

CosortCall ==
    /\ pc = "call" /\ call = "_cosort"
    /\ values' = Cosort(values, indices)[1]
    /\ indices' = Cosort(values, indices)[2]
    /\ outcome' = "return"
    /\ pc' = "done"
    /\ UNCHANGED <<call, odf, sphere_vertices, edges,
                   relative_peak_threshold, min_separation_angle, wpeak,
                   count, ei, ci, cn_ret, directions, a, relative_threshold,
                   n, vertices, theta, asym, unique_vertices, index,
                   n_unique, di, broke, uniq>>

----------------------------------------------------------------------------

Next ==
    \/ CosortCall
    \/ CompareNeighborsEnter
    \/ CompareEdge
    \/ ScanEnd
    \/ CompactStep
    \/ CompactEnd
    \/ LocalMaxima
    \/ PeakBranch
    \/ SearchDescendingCall
    \/ PeakCut
    \/ RemoveSimilarEnter
    \/ RemoveSimilarStep
    \/ RemoveSimilarReturn
    \/ PeakReturn

Spec == Init /\ [][Next]_vars

----------------------------------------------------------------------------
(* Properties. *)

Returned == pc = "done" /\ outcome = "return"
Raised == pc = "done" /\ outcome # "return"

RangeOf(f) == {f[k] : k \in DOMAIN f}

NaNFree(f) == \A i \in DOMAIN f : ~IsNaN(f[i])
EdgesInRange(f, E) == \A k \in DOMAIN E : E[k][1] < Len0(f) /\ E[k][2] < Len0(f)

\* the vertices sharing an edge with vertex i
Neighbors(E, i) ==
    {E[k][2] : k \in {k \in DOMAIN E : E[k][1] = i}}
        \cup {E[k][1] : k \in {k \in DOMAIN E : E[k][2] = i}}

\* the vertices greater than at least one neighbor and not less than any
LocalMaxSet(f, E) ==
    {i \in DOMAIN f :
        /\ \E j \in Neighbors(E, i) : FGt(f[i], f[j])
        /\ \A j \in Neighbors(E, i) : ~FLt(f[i], f[j])}

\* smallest i with a[i] < a[0] * relative_threshold, or len(a)
SmallestBelow(arr, rt) ==
    LET below == {i \in DOMAIN arr : arr[i] * rt[2] < rt[1] * arr[0]}
    IN IF below = {} THEN Len0(arr) ELSE SetMin(below)

\* C1: search_descending returns, for every descending a and every threshold,
\* the smallest index i with a[i] < a[0] * relative_threshold, or len(a) when
\* there is none; for a = [10..1] it returns 6, 1, 0, 10 for 0.5, 1, 2, 0.
C1_SearchContract ==
    (call = "search_descending" /\ pc = "done") =>
        /\ outcome = "return"
        /\ n = SmallestBelow(a, relative_threshold)
        /\ (a = Ten /\ relative_threshold = <<1, 2>>) => n = 6
        /\ (a = Ten /\ relative_threshold = <<1, 1>>) => n = 1
        /\ (a = Ten /\ relative_threshold = <<2, 1>>) => n = 0
        /\ (a = Ten /\ relative_threshold = <<0, 1>>) => n = 10

RECURSIVE GreedyFrom(_, _, _, _, _)
GreedyFrom(vs, t, asy, k, kept) ==
    IF k >= Len0(vs) THEN kept
    ELSE IF \E j \in DOMAIN kept : TooSimilar(vs[k], vs[kept[j]], t, asy)
    THEN GreedyFrom(vs, t, asy, k + 1, kept)
    ELSE GreedyFrom(vs, t, asy, k + 1, [i \in 0..Len0(kept) |-> IF i = Len0(kept) THEN k ELSE kept[i]])

Greedy(vs, t, asy) == GreedyFrom(vs, t, asy, 0, <<>>)

RemoveSimilarReturned ==
    \/ call = "remove_similar_vertices" /\ Returned
    \/ pc = "pd_select"

\* the rows of the buffer that were never filled are all zero: they had no
\* part in any rejection
UnfilledRowsZero ==
    \A k \in DOMAIN unique_vertices : k >= n_unique => unique_vertices[k] = <<0, 0, 0>>

\* C3: remove_similar_vertices decides every input vector in input order: a
\* vector is dropped iff it is too similar to a vector accepted before it,
\* and a rejection never keeps later vectors from being accepted.  (Stated
\* for the calls whose unfilled buffer rows are zero.)
C3_GreedyEveryVector ==
    (RemoveSimilarReturned /\ UnfilledRowsZero) =>
        /\ uniq = Greedy(vertices, theta, asym)
        /\ directions = Take(vertices, uniq)

\* C4: no two directions retained by remove_similar_vertices, or returned by
\* peak_directions_asym, are closer than the separation angle:
\* dot(u, w) <= cos(theta), with |dot(u, w)| when asym is false.
C4_Separated ==
    /\ (pc = "rs_loop" \/ RemoveSimilarReturned) =>
          \A i, j \in 0..(n_unique - 1) :
              i # j => ~TooSimilar(unique_vertices[i], unique_vertices[j], theta, asym)
    /\ RemoveSimilarReturned =>
          \A i, j \in DOMAIN directions :
              i # j => ~TooSimilar(directions[i], directions[j], theta, asym)
    /\ (call = "peak_directions_asym" /\ Returned) =>
          \A i, j \in DOMAIN directions :
              i # j => ~TooSimilar(directions[i], directions[j],
                                   min_separation_angle, TRUE)

\* two directions retained and returned after an input was dropped
C4_Witness ==
    /\ RemoveSimilarReturned
    /\ Len0(directions) >= 2
    /\ broke

\* C5: in every result of peak_directions_asym the three sequences have
\* equal length, values[i] = odf[indices[i]] (unshifted) and
\* directions[i] = sphere.vertices[indices[i]].
C5_RoundTrip ==
    (call = "peak_directions_asym" /\ Returned) =>
        /\ DOMAIN directions = DOMAIN values
        /\ DOMAIN indices = DOMAIN values
        /\ DOMAIN values = 0..(Len0(values) - 1)
        /\ \A i \in DOMAIN values :
              /\ indices[i] \in DOMAIN odf
              /\ values[i] = odf[indices[i]]
              /\ directions[i] = sphere_vertices[indices[i]]

\* a result of the thresholded and deduplicated path, with a shifted sample
\* and three peaks returned
C5_Witness ==
    /\ call = "peak_directions_asym" /\ Returned
    /\ cn_ret = "tuple" /\ uniq # <<>>
    /\ Len0(values) >= 3
    /\ OdfMin(odf) > 0

\* some edge has a NaN endpoint
NaNOnEdge(f, E) == \E k \in DOMAIN E : IsNaN(f[E[k][1]]) \/ IsNaN(f[E[k][2]])

\* C6: with in-range edges and a NaN at an endpoint of some edge, wherever the
\* edge is in the list, local_maxima and peak_directions_asym raise
\* ValueError('odf can not have nans') and return no result.
C6_NaNRaisesValueError ==
    (call = "peak_directions_asym" /\ EdgesInRange(odf, edges) /\ NaNOnEdge(odf, edges)) =>
        /\ pc \notin {"cn_compact", "pd_branch", "pd_search", "pd_cut",
                      "rs_enter", "rs_loop", "pd_select"}
        /\ pc = "done" => outcome = "ValueError"

\* C7: with an edge index >= len(odf) (and a NaN-free odf), local_maxima and
\* peak_directions_asym raise IndexError('Values in edges must be <
\* len(odf)') and return no partial result.
C7_OutOfRangeRaisesIndexError ==
    (call = "peak_directions_asym" /\ NaNFree(odf) /\ ~EdgesInRange(odf, edges)) =>
        /\ pc \notin {"cn_compact", "pd_branch", "pd_search", "pd_cut",
                      "rs_enter", "rs_loop", "pd_select"}
        /\ pc = "done" => outcome = "IndexError"

\* the largest sample value among the local maxima
BestCandidate(f, E) == SetMax({f[i] : i \in LocalMaxSet(f, E)})

\* C8: a result of peak_directions_asym is empty iff no vertex is a local
\* maximum or the largest candidate value is negative.
C8_EmptyIff ==
    (call = "peak_directions_asym" /\ Returned) =>
        (Len0(values) = 0 <=>
            (LocalMaxSet(odf, edges) = {} \/ BestCandidate(odf, edges) < 0))

Isotropic(f) == NaNFree(f) /\ \A i, j \in DOMAIN f : f[i] = f[j]

StrictGlobalMax(f, m) == \A j \in DOMAIN f : j # m => f[j] < f[m]

OnePeakAt(m) ==
    /\ outcome = "return"
    /\ indices = (0 :> m)
    /\ values = (0 :> odf[m])
    /\ directions = (0 :> sphere_vertices[m])

\* every vertex of the mesh is an endpoint of some edge
NoIsolatedVertex(f, E) == \A i \in DOMAIN f : Neighbors(E, i) # {}

\* C10 as stated: when one vertex attains the global maximum and every other
\* vertex is strictly smaller, peak_directions_asym returns exactly one
\* peak: that vertex's direction, value and index.  (Stated for the results
\* returned on meshes without isolated vertices, in calls whose unfilled
\* buffer rows are zero.)
C10_StrictMaxOnePeak ==
    (call = "peak_directions_asym" /\ NaNFree(odf) /\ EdgesInRange(odf, edges)
        /\ NoIsolatedVertex(odf, edges) /\ UnfilledRowsZero /\ Returned) =>
        \A m \in DOMAIN odf : StrictGlobalMax(odf, m) => OnePeakAt(m)

\* C10, amended: when one vertex attains the global maximum, every other
\* vertex is strictly smaller, the maximum is >= 0 and that vertex is the
\* only local maximum of the mesh, peak_directions_asym returns exactly one
\* peak: that vertex's direction, value and index.
C10_OnlyLocalMaxOnePeak ==
    (call = "peak_directions_asym" /\ NaNFree(odf) /\ EdgesInRange(odf, edges)
        /\ pc = "done") =>
        \A m \in DOMAIN odf :
            (StrictGlobalMax(odf, m) /\ odf[m] >= 0 /\ LocalMaxSet(odf, edges) = {m})
                => OnePeakAt(m)

C10_Witness ==
    /\ call = "peak_directions_asym" /\ pc = "done"
    /\ NaNFree(odf) /\ EdgesInRange(odf, edges)
    /\ StrictGlobalMax(odf, 1) /\ odf[1] = 0 /\ LocalMaxSet(odf, edges) = {1}
    /\ Len0(edges) >= 2
    /\ OnePeakAt(1)

----------------------------------------------------------------------------
(* Antipodal directions. *)

Neg(v) == <<-v[1], -v[2], -v[3]>>

\* the only local maxima are two antipodal vertices i < j of equal height
TwoLobes(f, E, V, i, j) ==
    /\ i < j
    /\ LocalMaxSet(f, E) = {i, j}
    /\ f[i] = f[j]
    /\ V[j] = Neg(V[i])

\* C11: when the only local maxima are two antipodal vertices of equal
\* height, peak_directions_asym returns both opposing peaks, for every
\* min_separation_angle in [0,90].
C11_BothLobes ==
    (call = "peak_directions_asym" /\ NaNFree(odf) /\ EdgesInRange(odf, edges)
        /\ pc = "done") =>
        \A i, j \in DOMAIN odf :
            TwoLobes(odf, edges, sphere_vertices, i, j) =>
                /\ outcome = "return"
                /\ Len0(indices) = 2
                /\ RangeOf(indices) = {i, j}
                /\ RangeOf(directions) = {sphere_vertices[i], sphere_vertices[j]}

\* C12: remove_similar_vertices on exactly the two inputs v and -v returns
\* only the first when asym is false and both when asym is true.  (Stated
\* for theta > 0: at theta = 0 nothing is "less than theta degrees" away.)
C12_AntipodalPair ==
    (call = "remove_similar_vertices" /\ Returned /\ Len0(vertices) = 2
        /\ vertices[1] = Neg(vertices[0]) /\ theta > 0) =>
        IF asym THEN directions = vertices
        ELSE directions = (0 :> vertices[0])

----------------------------------------------------------------------------
(* remove_similar_vertices as a function of its inputs and of what np.empty
   left in the buffer: the loop of RemoveSimilarStep, run to its end. *)

RECURSIVE RemoveSimilarLoop(_, _, _, _, _, _)
\* n_unique at the end of the loop, from iteration i with nu rows filled
RemoveSimilarLoop(vs, t, asy, buffer, i, nu) ==
    IF i >= Len0(vs) THEN nu
    ELSE IF AnySimilar(vs[i], buffer, t, asy) THEN nu
    ELSE RemoveSimilarLoop(vs, t, asy, [buffer EXCEPT ![nu] = vs[i]], i + 1, nu + 1)

SurvivorCount(vs, t, asy, buffer) == RemoveSimilarLoop(vs, t, asy, buffer, 0, 0)

\* C13: for a fixed input sequence and asym flag, a call with a larger theta
\* never returns more survivors than a call with a smaller theta.
C13_MonotoneInTheta ==
    (call = "remove_similar_vertices" /\ Returned) =>
        \A t2 \in Angles : \A buffer \in [DOMAIN vertices -> Garbage] :
            /\ t2 >= theta => SurvivorCount(vertices, t2, asym, buffer) <= Len0(directions)
            /\ t2 <= theta => SurvivorCount(vertices, t2, asym, buffer) >= Len0(directions)

----------------------------------------------------------------------------
(* Sorting. *)

\* vals is in descending order
SortedDescending(vals) ==
    \A k \in DOMAIN vals : (k + 1) \in DOMAIN vals => vals[k] >= vals[k + 1]

\* every entry is a (value, index) pair of f
PairsOf(vals, idx, f) ==
    /\ DOMAIN idx = DOMAIN vals
    /\ \A k \in DOMAIN vals : idx[k] \in DOMAIN f /\ vals[k] = f[idx[k]]

\* entries of equal value are in the order of their input positions; the
\* inputs of _cosort carry ascending tags in B
TiesInInputOrder(vals, idx) ==
    \A k, l \in DOMAIN vals : (k < l /\ vals[k] = vals[l]) => idx[k] < idx[l]

\* C14: _cosort outputs a permutation of the input (value, index) pairs,
\* sorted by value descending, equal values keeping their input order; and
\* local_maxima returns descending peak values with
\* odf[peak_indices[i]] = peak_values[i].
C14_StableDescendingSort ==
    /\ (call = "_cosort" /\ Returned) =>
          /\ DOMAIN values = DOMAIN odf
          /\ RangeOf(indices) = DOMAIN odf
          /\ PairsOf(values, indices, odf)
          /\ SortedDescending(values)
          /\ TiesInInputOrder(values, indices)
    /\ pc = "pd_branch" =>
          /\ PairsOf(values, indices, odf)
          /\ Len0(values) = count
          /\ RangeOf(indices) = RangeOf(Prefix(wpeak, count))
          /\ SortedDescending(values)
          /\ TiesInInputOrder(values, indices)

\* a direct call that moved an entry to the front past two equal values
C14_Witness ==
    /\ call = "_cosort" /\ Returned
    /\ Len0(values) = 3
    /\ indices = (0 :> 2 @@ 1 :> 0 @@ 2 :> 1)
    /\ values[1] = values[2]

\* C15: the values of every result returned by peak_directions_asym are in
\* non-increasing order: thresholding and deduplication only remove entries
\* of the descending-sorted candidates.
C15_ValuesNonIncreasing ==
    (call = "peak_directions_asym" /\ Returned) =>
        /\ SortedDescending(values)
        /\ PairsOf(values, indices, odf)
        /\ DOMAIN directions = DOMAIN values
        /\ \A k \in DOMAIN values : directions[k] = sphere_vertices[indices[k]]

\* a result of two peaks of different height whose higher peak has the
\* larger vertex index, so the sort reordered the candidates
C15_Witness ==
    /\ call = "peak_directions_asym" /\ Returned
    /\ Len0(values) = 2
    /\ values[0] > values[1]
    /\ indices[0] > indices[1]

----------------------------------------------------------------------------
(* Frame. *)

\* C16: a call to peak_directions_asym, whether it returns or fails, never
\* changes the caller's sample array, mesh vertices or mesh edges.
C16_InputsUnchanged ==
    [][call = "peak_directions_asym" =>
          /\ odf' = odf
          /\ sphere_vertices' = sphere_vertices
          /\ edges' = edges]_vars

\* a finished call whose sample array was not in sorted order and whose
\* candidates were co-sorted and deduplicated
C16_Witness ==
    /\ call = "peak_directions_asym" /\ pc = "done"
    /\ outcome = "return"
    /\ ~SortedDescending(odf)
    /\ Len0(values) >= 2
    /\ wpeak # [k \in DOMAIN odf |-> 0]

----------------------------------------------------------------------------
(* The edge scan of _compare_neighbors. *)

\* vertex v is an endpoint of edge k and the other endpoint is strictly larger
LosesEdge(v, k) ==
    \/ edges[k][1] = v /\ FLt(odf[v], odf[edges[k][2]])
    \/ edges[k][2] = v /\ FLt(odf[v], odf[edges[k][1]])

\* vertex v is an endpoint of edge k and the other endpoint is strictly smaller
WinsEdge(v, k) ==
    \/ edges[k][1] = v /\ FGt(odf[v], odf[edges[k][2]])
    \/ edges[k][2] = v /\ FGt(odf[v], odf[edges[k][1]])

\* C17: during the edge scan the 'dominated' marker -1 is absorbing: a
\* vertex marked -1 keeps -1 after every later edge step, so a vertex that
\* lost on a scanned edge is marked -1 whatever it won before or after, and
\* such a vertex is never among the candidates.
C17_DominatedAbsorbing ==
    /\ [][pc = "cn_scan" =>
            \A v \in DOMAIN wpeak : wpeak[v] = -1 => wpeak'[v] = -1]_vars
    /\ [](pc = "cn_scan" =>
            \A v \in DOMAIN wpeak : \A k \in 0..(ei - 1) :
                LosesEdge(v, k) => wpeak[v] = -1)
    /\ [](pc = "pd_branch" =>
            \A v \in DOMAIN odf : \A k \in DOMAIN edges :
                LosesEdge(v, k) => v \notin RangeOf(indices))

\* the edge just scanned is a win for a vertex that lost on an earlier edge,
\* and its marker is still -1
C17_Witness ==
    /\ pc = "cn_scan" /\ ei >= 2
    /\ \E v \in DOMAIN wpeak :
          /\ WinsEdge(v, ei - 1)
          /\ \E k \in 0..(ei - 2) : LosesEdge(v, k)
          /\ wpeak[v] = -1

----------------------------------------------------------------------------
(* The compaction of _compare_neighbors. *)

\* the entries of f are strictly ascending
StrictlyAscending(f) ==
    \A k, l \in DOMAIN f : k < l => f[k] < f[l]

\* C18: after a successful scan _compare_neighbors returns count equal to the
\* number of vertices marked 'wins', and the first count entries of the
\* buffer are exactly those vertices in strictly ascending order; at every
\* compaction step the write position is at most the read position and no
\* marker that has not been read yet is overwritten.
C18_Compaction ==
    /\ [](pc = "cn_compact" =>
            /\ count <= ci
            /\ StrictlyAscending(Prefix(wpeak, count))
            /\ RangeOf(Prefix(wpeak, count)) =
                   {v \in LocalMaxSet(odf, edges) : v < ci}
            /\ \A v \in DOMAIN wpeak :
                   v >= ci => (wpeak[v] > 0 <=> v \in LocalMaxSet(odf, edges)))
    /\ [][pc = "cn_compact" =>
            \A v \in DOMAIN wpeak : v > ci => wpeak'[v] = wpeak[v]]_vars
    /\ []((pc = "lm_unpack" /\ cn_ret = "tuple") =>
            /\ count = Cardinality(LocalMaxSet(odf, edges))
            /\ StrictlyAscending(Prefix(wpeak, count))
            /\ RangeOf(Prefix(wpeak, count)) = LocalMaxSet(odf, edges))

\* a return with two winners, the first of them not vertex 0, so that the
\* write position fell behind the read position
C18_Witness ==
    /\ pc = "lm_unpack" /\ cn_ret = "tuple"
    /\ count >= 2
    /\ wpeak[0] > 0
    /\ 0 \notin LocalMaxSet(odf, edges)

----------------------------------------------------------------------------
(* The working buffer of remove_similar_vertices. *)

\* C19: the accept/reject decision for an input vector depends only on that
\* vector and the vectors accepted before it, never on unfilled slots of the
\* working buffer; hence the first input vector is always accepted, and the
\* output is the greedy selection determined by the inputs.
C19_AcceptedOnly ==
    (call = "remove_similar_vertices" /\ Returned /\ Len0(vertices) >= 1) =>
        /\ n_unique >= 1
        /\ directions[0] = vertices[0]
        /\ uniq[0] = 0
        /\ SurvivorCount(vertices, theta, asym,
                         [k \in DOMAIN vertices |-> <<0, 0, 0>>]) >= n_unique

----------------------------------------------------------------------------
(* Totality on valid inputs. *)

\* the scenario's threshold is in [0, 1] and its angle in [0, 90]
ValidParameters ==
    /\ relative_peak_threshold[1] >= 0
    /\ relative_peak_threshold[1] <= relative_peak_threshold[2]
    /\ min_separation_angle >= 0 /\ min_separation_angle <= 90

\* C20: for every valid input (NaN-free sample, edge indices below N,
\* threshold in [0, 1], angle in [0, 90]) peak_directions_asym returns a
\* result without raising, in particular at threshold 1 with two or more
\* candidates and when the best candidate is exactly 0 and the others are
\* negative.
C20_ValidInputReturns ==
    (call = "peak_directions_asym" /\ pc = "done" /\ NaNFree(odf)
        /\ EdgesInRange(odf, edges) /\ ValidParameters) =>
        outcome = "return"

====
